---- MODULE Spec2Model ----
(***************************************************************************)
(* Model of the trading bot: the session control loop of src/bot.py (main) *)
(* and the signal derivation of src/technical.py (TechnicalAnalyzer).      *)
(*                                                                         *)
(* The loop is single-threaded.  Every action below is one straight-line   *)
(* stretch of main() between two points where the claims observe the       *)
(* controller: the start of a cycle, a pause, and the evaluation of one    *)
(* instrument.  The collaborators (broker, news gate, staking manager,     *)
(* predictor, pattern library) are not part of the repository: what they   *)
(* return is chosen nondeterministically, and every call made to them in   *)
(* the last step is recorded, in program order, in the variable calls.     *)
(***************************************************************************)
EXTENDS Integers, Sequences, FiniteSets, TLC

(***************************************************************************)
(* Configuration (config.yaml is read at bot.py:23) and model bounds.      *)
(***************************************************************************)
NumAssets == 2                  \* len(config['assets'])
Assets == 1..NumAssets          \* config['assets'], in configured order
StopWinVictories == 2           \* config['stop_win_victories']
MinPayout == 70                 \* config['min_payout'], in percent
MaxPayout == 95                 \* config['max_payout'], in percent
MaFast == 1                     \* config['trend_ma_fast']
MaSlow == 2                     \* config['trend_ma_slow']
VolumePeriod == 2               \* config['volume_period']

TicksPerDay == 2                \* clock ticks in one calendar day
MaxClock == 3                   \* last instant of the modelled clock
NoDate == -1                    \* last_trade_date = None

\* pd.Timestamp.date(): the calendar date of an instant.
date(t) == t \div TicksPerDay

(***************************************************************************)
(* Floats as exact rationals, with NaN (what pandas yields for a rolling   *)
(* window that is not full).  Every comparison with NaN is false.          *)
(***************************************************************************)
NaN == [nan |-> TRUE, num |-> 0, den |-> 1]
Rat(n, d) == [nan |-> FALSE, num |-> n, den |-> d]
FloatGT(a, b) == ~a.nan /\ ~b.nan /\ a.num * b.den > b.num * a.den
FloatLT(a, b) == ~a.nan /\ ~b.nan /\ a.num * b.den < b.num * a.den

RECURSIVE Gcd(_, _)
Gcd(a, b) == IF b = 0 THEN a ELSE Gcd(b, a % b)
\* A non-negative rational in lowest terms, so that equal values are equal.
Norm(n, d) == LET g == Gcd(n, d) IN Rat(n \div g, d \div g)

RECURSIVE SumCol(_, _, _, _)
SumCol(df, col, lo, hi) ==
    IF lo > hi THEN 0 ELSE df[hi][col] + SumCol(df, col, lo, hi - 1)

\* df[col].rolling(n).mean() at row i (1-based): NaN until n rows are there.
rolling_mean(df, col, n, i) ==
    IF i < n THEN NaN ELSE Rat(SumCol(df, col, i - n + 1, i), n)

RECURSIVE MinCol(_, _, _)
MinCol(df, col, hi) ==
    IF hi = 1 THEN df[1][col]
    ELSE LET m == MinCol(df, col, hi - 1)
         IN IF df[hi][col] < m THEN df[hi][col] ELSE m

RECURSIVE MaxCol(_, _, _)
MaxCol(df, col, hi) ==
    IF hi = 1 THEN df[1][col]
    ELSE LET m == MaxCol(df, col, hi - 1)
         IN IF df[hi][col] > m THEN df[hi][col] ELSE m

(***************************************************************************)
(* bot.get_candles_df and technical.TechnicalAnalyzer                      *)
(***************************************************************************)
\* The broker's candles carry 'min' and 'max'; the frame renames them.
get_candles_df(candles) ==
    [i \in 1..Len(candles) |->
        [low |-> candles[i].min, high |-> candles[i].max,
         close |-> candles[i].close, volume |-> candles[i].volume]]

\* A frame built from no candle has no column at all: df['close'] raises.
HasColumns(df) == Len(df) > 0

\* A TechnicalAnalyzer: the fields set by __init__ (technical.py:9-12).
TechnicalAnalyzer(ma_fast, ma_slow, volume_period) ==
    [ma_fast |-> ma_fast, ma_slow |-> ma_slow, volume_period |-> volume_period]

\* The analyzer main() builds from the configuration: bot.py:34-38.
technical == TechnicalAnalyzer(MaFast, MaSlow, VolumePeriod)

\* calculate_moving_averages of the analyzer self.
moving_averages_of(self, df) ==
    [i \in 1..Len(df) |->
        df[i] @@ [MA_fast |-> rolling_mean(df, "close", self.ma_fast, i),
                  MA_slow |-> rolling_mean(df, "close", self.ma_slow, i)]]

\* main()'s call at bot.py:95.
calculate_moving_averages(df) == moving_averages_of(technical, df)

\* detect_trend answering "up" for equal averages.
detect_trend_never_flat(df) ==
    LET last == df[Len(df)]
        fast == last.MA_fast
        slow == last.MA_slow
    IN IF FloatLT(fast, slow) THEN "down"
       ELSE IF fast.nan \/ slow.nan THEN "flat"
       ELSE "up"

\* technical.py:20-30
detect_trend(df) ==
    LET last == df[Len(df)]
        fast == last.MA_fast
        slow == last.MA_slow
    IN IF FloatGT(fast, slow) THEN "up"
       ELSE IF FloatLT(fast, slow) THEN "down"
       ELSE "flat"

\* detect_breakout with support and resistance taken over the candles before
\* the last one (an empty min or max is NaN: no breakout).
detect_breakout_prior(df) ==
    LET n == Len(df)
        last_close == df[n].close
    IN IF n = 1 THEN "none"
       ELSE IF last_close > MaxCol(df, "high", n - 1) THEN "breakout_up"
       ELSE IF last_close < MinCol(df, "low", n - 1) THEN "breakout_down"
       ELSE "none"

\* None is written "none".
detect_breakout(df) ==
    LET support == MinCol(df, "low", Len(df))
        resistance == MaxCol(df, "high", Len(df))
        last_close == df[Len(df)].close
    IN IF last_close > resistance THEN "breakout_up"
       ELSE IF last_close < support THEN "breakout_down"
       ELSE "none"

(***************************************************************************)
(* The per-instrument computations of main()                               *)
(***************************************************************************)
\* all_profit.get(asset, {}).get('turbo', 0)
turbo_payout(profit, asset) ==
    IF asset \in DOMAIN profit THEN profit[asset] ELSE 0

\* InBand without the test against max_payout.
InBandMinOnly(payout) == ~(payout < MinPayout)

\* The negation of the skip condition of bot.py:85.
InBand(payout) == ~(payout < MinPayout \/ payout > MaxPayout)

\* patterns[0][0] if patterns else None
first_pattern(patterns) ==
    IF Len(patterns) > 0 THEN patterns[1].name ELSE "none"

\* volume_ratio_of without the guard on the mean: the plain division, which
\* is NaN for an unavailable mean and for 0/0.
volume_ratio_unguarded(df, period) ==
    LET avg_volume == rolling_mean(df, "volume", period, Len(df))
        last_volume == df[Len(df)].volume
    IN IF avg_volume.nan \/ avg_volume.num = 0 THEN NaN
       ELSE Norm(last_volume * avg_volume.den, avg_volume.num)

\* last_candle.volume / avg_volume if avg_volume > 0 else 0, the mean taken
\* over period rows: bot.py:103-104.
volume_ratio_of(df, period) ==
    LET avg_volume == rolling_mean(df, "volume", period, Len(df))
        last_volume == df[Len(df)].volume
    IN IF FloatGT(avg_volume, Rat(0, 1))
       THEN Norm(last_volume * avg_volume.den, avg_volume.num)
       ELSE Rat(0, 1)

\* With config['volume_period'].
volume_ratio(df) == volume_ratio_of(df, VolumePeriod)

\* high_chance_basic with any() in the place of all().
high_chance_basic_any(breakout, pattern_name, vratio, trend) ==
    \/ breakout # "none"
    \/ pattern_name # "none"
    \/ FloatGT(vratio, Rat(1, 1))
    \/ trend # "flat"

\* all([breakout, pattern_name, volume_ratio > 1.0, trend != "flat"])
high_chance_basic(breakout, pattern_name, vratio, trend) ==
    /\ breakout # "none"
    /\ pattern_name # "none"
    /\ FloatGT(vratio, Rat(1, 1))
    /\ trend # "flat"

\* bot.py:95-105 on a frame that has its columns: the signals of one
\* instrument.  pattern_name is "none" for None.
analyze_with(self, df0, patterns) ==
    LET frame == moving_averages_of(self, df0)
        breakout == detect_breakout(frame)
        trend == detect_trend(frame)
        pattern_name == first_pattern(patterns)
        vratio == volume_ratio_of(frame, self.volume_period)
    IN [breakout |-> breakout,
        trend |-> trend,
        pattern_name |-> pattern_name,
        volume_ratio |-> vratio,
        high_chance_basic |->
            high_chance_basic(breakout, pattern_name, vratio, trend)]

\* With the analyzer and the volume period of the configuration.
Analyze(df0, patterns) == analyze_with(technical, df0, patterns)

\* The features dict of bot.py:108-114.
build_features(sig, payout) ==
    [pattern_name |->
        IF sig.pattern_name # "none" THEN sig.pattern_name ELSE "unknown",
     breakout |-> sig.breakout,
     trend |-> sig.trend,
     volume_ratio |-> sig.volume_ratio,
     payout |-> payout]

\* infer_direction without the confirmation by the trend.
infer_direction_by_breakout(breakout, trend) ==
    IF breakout = "breakout_up" THEN "call"
    ELSE IF breakout = "breakout_down" THEN "put"
    ELSE "none"

\* The conditional expression of bot.py:118-122; None is written "none".
infer_direction(breakout, trend) ==
    IF breakout = "breakout_up" /\ trend = "up" THEN "call"
    ELSE IF breakout = "breakout_down" /\ trend = "down" THEN "put"
    ELSE "none"

(***************************************************************************)
(* What the collaborators can return                                       *)
(***************************************************************************)
\* IQ.get_all_profit(): a turbo payout per instrument, or no entry for it
\* (which main() reads as 0, below the band).
Payouts == {MinPayout - 1, MinPayout, MaxPayout, MaxPayout + 1}
ProfitMaps == UNION {[S -> Payouts] : S \in SUBSET Assets}

\* IQ.get_candles(): a list of candles, possibly empty or shorter than the
\* slow moving average.  Nothing makes the broker's candles well-formed.
FetchPrices == {1, 2, 3}
FetchVolumes == {1}
BrokerCandles ==
    [min : FetchPrices, max : FetchPrices, close : FetchPrices,
     volume : FetchVolumes]
FetchLens == 0..MaSlow
CandleLists == UNION {[1..n -> BrokerCandles] : n \in FetchLens}

\* df.ta.cdl_pattern(): the hits on the last candle, in column order.
PatternLists ==
    {<<>>,
     <<[name |-> "CDL_ENGULFING", strength |-> -100],
       [name |-> "CDL_DOJI", strength |-> 100]>>}

(***************************************************************************)
(* State                                                                   *)
(***************************************************************************)
VARIABLES
    pc,               \* where main() is: see PcValues
    clock,            \* the wall clock, read by pd.Timestamp.now()
    daily_wins,       \* bot.py:54
    last_trade_date,  \* bot.py:55, an instant or NoDate
    all_profit,       \* bot.py:80, the payout map of the current cycle
    idx,              \* position of the for loop of bot.py:82 in Assets
    features,         \* bot.py:108, the features of the instrument just evaluated
    direction,        \* bot.py:118, the direction inferred for it
    calls,            \* the collaborator calls of the last step, in order
    feed,             \* what the broker's candles are like in this session
    ta_df,            \* the frame given to the analyzer (SpecTA, SpecSig)
    ta_in,            \* the analyzer and the pattern hits (SpecSig only)
    ta_out            \* the analyzer's answer for ta_df (SpecTA, SpecSig)

vars == <<pc, clock, daily_wins, last_trade_date, all_profit, idx, features,
          direction, calls, feed, ta_df, ta_in, ta_out>>

PcValues ==
    {"connect",            \* before IQ.connect(), bot.py:25
     "exited",             \* returned at bot.py:30
     "top",                \* at the head of the while loop, bot.py:57
     "news_pause",         \* before time.sleep(60), bot.py:64
     "daily_stop_pause",   \* before time.sleep(60*60), bot.py:76
     "scan",               \* in the for loop, before instrument idx
     "crashed"}            \* an exception left main()

Call(op, asset, arg, ret) == [op |-> op, asset |-> asset, arg |-> arg, ret |-> ret]
Bool(b) == IF b THEN "True" ELSE "False"

NoProfit == [a \in {} |-> 0]
NoFeatures ==
    [pattern_name |-> "unset", breakout |-> "unset", trend |-> "unset",
     volume_ratio |-> NaN, payout |-> 0]
NoFrame == <<>>
NoAnswer == "unset"
NoInput == [self |-> technical, patterns |-> <<>>]

\* What IQ.get_candles delivers in a session: candles of any shape, or only
\* candles with low <= close <= high.
Feeds == {"any", "well_formed"}

\* The variables of the analyzer harness, untouched by main().
TAIdle == ta_df = NoFrame /\ ta_in = NoInput /\ ta_out = NoAnswer

Init ==
    /\ pc = "connect"
    /\ clock \in 0..(TicksPerDay - 1)
    /\ daily_wins = 0
    /\ last_trade_date = NoDate
    /\ all_profit = NoProfit
    /\ idx = 0
    /\ features = NoFeatures
    /\ direction = "unset"
    /\ calls = <<>>
    /\ feed \in Feeds
    /\ TAIdle

(***************************************************************************)
(* Start-up: bot.py:23-55                                                  *)
(***************************************************************************)
ConnectOk ==
    /\ pc = "connect"
    /\ pc' = "top"
    /\ calls' = <<Call("connect", 0, "", "ok"),
                  Call("change_balance", 0, "", "ok")>>
    /\ UNCHANGED <<clock, daily_wins, last_trade_date, all_profit, idx,
                   features, direction, feed, ta_df, ta_in, ta_out>>

ConnectFail ==
    /\ pc = "connect"
    /\ pc' = "exited"
    /\ calls' = <<Call("connect", 0, "", "raise")>>
    /\ UNCHANGED <<clock, daily_wins, last_trade_date, all_profit, idx,
                   features, direction, feed, ta_df, ta_in, ta_out>>

(***************************************************************************)
(* Head of a cycle: bot.py:57-80                                           *)
(***************************************************************************)
\* The calls every cycle starts with, given the news gate's answer.
HeadCalls(news) ==
    <<Call("check_and_train_daily", 0, "", "ok"),
      Call("check_high_impact_news", 0, "", Bool(news))>>

\* IsNewDay comparing the instants instead of their dates.
IsNewDayByInstant(last, now) == last = NoDate \/ last < now

\* bot.py:69: does the day roll over at instant now?
IsNewDay(last, now) == last = NoDate \/ date(last) < date(now)

\* bot.py:68-71: the value of daily_wins after the rollover step.
Rollover(wins, last, now) == IF IsNewDay(last, now) THEN 0 ELSE wins

\* CapReached with a strict comparison.
CapReachedStrict(wins) == wins > StopWinVictories

\* bot.py:74
CapReached(wins) == wins >= StopWinVictories

\* NewsPause with the rollover done before the news gate is asked.
NewsPauseAfterRollover ==
    /\ pc = "top"
    /\ pc' = "news_pause"
    /\ calls' = HeadCalls(TRUE)
    /\ daily_wins' = Rollover(daily_wins, last_trade_date, clock)
    /\ last_trade_date' = clock
    /\ features' = NoFeatures
    /\ direction' = "unset"
    /\ UNCHANGED <<clock, all_profit, idx, feed, ta_df, ta_in, ta_out>>

\* News gate true: bot.py:62-63.
NewsPause ==
    /\ pc = "top"
    /\ pc' = "news_pause"
    /\ calls' = HeadCalls(TRUE)
    /\ features' = NoFeatures
    /\ direction' = "unset"
    /\ UNCHANGED <<clock, daily_wins, last_trade_date, all_profit, idx, feed, ta_df, ta_in, ta_out>>

\* DailyStop with the cap checked on the wins of before the rollover.
DailyStopCapFirst ==
    /\ pc = "top"
    /\ CapReached(daily_wins)
    /\ daily_wins' = Rollover(daily_wins, last_trade_date, clock)
    /\ last_trade_date' = clock
    /\ pc' = "daily_stop_pause"
    /\ calls' = HeadCalls(FALSE)
    /\ features' = NoFeatures
    /\ direction' = "unset"
    /\ UNCHANGED <<clock, all_profit, idx, feed, ta_df, ta_in, ta_out>>

\* News gate false, rollover, cap reached: bot.py:62-75.
DailyStop ==
    /\ pc = "top"
    /\ CapReached(Rollover(daily_wins, last_trade_date, clock))
    /\ daily_wins' = Rollover(daily_wins, last_trade_date, clock)
    /\ last_trade_date' = clock
    /\ pc' = "daily_stop_pause"
    /\ calls' = HeadCalls(FALSE)
    /\ features' = NoFeatures
    /\ direction' = "unset"
    /\ UNCHANGED <<clock, all_profit, idx, feed, ta_df, ta_in, ta_out>>

\* News gate false, rollover, cap not reached, payouts fetched: bot.py:62-82.
StartScan ==
    /\ pc = "top"
    /\ ~CapReached(Rollover(daily_wins, last_trade_date, clock))
    /\ daily_wins' = Rollover(daily_wins, last_trade_date, clock)
    /\ last_trade_date' = clock
    /\ \E profit \in ProfitMaps : all_profit' = profit
    /\ idx' = 1
    /\ pc' = "scan"
    /\ calls' = HeadCalls(FALSE) \o <<Call("get_all_profit", 0, "", "ok")>>
    /\ features' = NoFeatures
    /\ direction' = "unset"
    /\ UNCHANGED <<clock, feed, ta_df, ta_in, ta_out>>

(***************************************************************************)
(* The sleeps: bot.py:64-65, 76-77, 143-144.  Time passes while the        *)
(* controller sleeps; the clock never runs backwards.                      *)
(***************************************************************************)
Elapse == \E d \in 0..1 : clock + d <= MaxClock /\ clock' = clock + d

NewsSleep ==
    /\ pc = "news_pause"
    /\ Elapse
    /\ pc' = "top"
    /\ calls' = <<Call("sleep", 0, "60", "ok")>>
    /\ UNCHANGED <<daily_wins, last_trade_date, all_profit, idx, features,
                   direction, feed, ta_df, ta_in, ta_out>>

StopSleep ==
    /\ pc = "daily_stop_pause"
    /\ Elapse
    /\ pc' = "top"
    /\ calls' = <<Call("sleep", 0, "3600", "ok")>>
    /\ UNCHANGED <<daily_wins, last_trade_date, all_profit, idx, features,
                   direction, feed, ta_df, ta_in, ta_out>>

CycleSleep ==
    /\ pc = "scan"
    /\ idx = NumAssets + 1
    /\ Elapse
    /\ pc' = "top"
    /\ idx' = 0
    /\ all_profit' = NoProfit
    /\ calls' = <<Call("sleep", 0, "timeframe_main", "ok")>>
    /\ features' = NoFeatures
    /\ direction' = "unset"
    /\ UNCHANGED <<daily_wins, last_trade_date, feed, ta_df, ta_in, ta_out>>

(***************************************************************************)
(* One instrument of the scan: bot.py:82-141                               *)
(***************************************************************************)
\* The instrument the for loop is at, and its payout (bot.py:84).
AtAsset == pc = "scan" /\ idx \in Assets
payout_now == turbo_payout(all_profit, idx)

\* The calls made up to the end of the feature computation.
FetchCalls(a) ==
    <<Call("get_candles", a, "", "ok"), Call("cdl_pattern", a, "", "ok")>>

\* The next instrument; what the iteration leaves behind.
NextAsset(feat, dir, made) ==
    /\ idx' = idx + 1
    /\ pc' = "scan"
    /\ features' = feat
    /\ direction' = dir
    /\ calls' = made
    /\ UNCHANGED <<clock, last_trade_date, all_profit, feed, ta_df, ta_in, ta_out>>

\* bot.py:85-86: payout outside the band.
SkipPayout ==
    /\ AtAsset
    /\ ~InBand(payout_now)
    /\ NextAsset(NoFeatures, "unset", <<>>)
    /\ UNCHANGED daily_wins

\* FetchFail leaving the for loop (break) instead of going on (continue).
FetchFailBreaks ==
    /\ AtAsset
    /\ InBand(payout_now)
    /\ idx' = NumAssets + 1
    /\ pc' = "scan"
    /\ features' = NoFeatures
    /\ direction' = "unset"
    /\ calls' = <<Call("get_candles", idx, "", "raise")>>
    /\ UNCHANGED <<clock, daily_wins, last_trade_date, all_profit, feed, ta_df, ta_in, ta_out>>

\* bot.py:89-93: get_candles_df raises.
FetchFail ==
    /\ AtAsset
    /\ InBand(payout_now)
    /\ NextAsset(NoFeatures, "unset", <<Call("get_candles", idx, "", "raise")>>)
    /\ UNCHANGED daily_wins

\* bot.py:90-95: the broker answers with no candle, the frame has no
\* 'close' column and calculate_moving_averages raises KeyError, which
\* nothing catches.
EmptyFrameCrash ==
    /\ AtAsset
    /\ InBand(payout_now)
    /\ \E candles \in CandleLists :
          ~HasColumns(get_candles_df(candles))
    /\ pc' = "crashed"
    /\ calls' = <<Call("get_candles", idx, "", "ok")>>
    /\ UNCHANGED <<clock, daily_wins, last_trade_date, all_profit, idx,
                   features, direction, feed, ta_df, ta_in, ta_out>>

\* The signals main() can compute for an instrument from what the broker
\* and the pattern library return: bot.py:90-105.
Signals ==
    {Analyze(get_candles_df(c), p) :
        c \in {x \in CandleLists : HasColumns(get_candles_df(x))},
        p \in PatternLists}

\* A broker candle whose close lies within its range.
WellFormed(candle) == candle.min <= candle.close /\ candle.close <= candle.max

\* Signals, when every candle the broker returns is well-formed.
SignalsWF ==
    {Analyze(get_candles_df(c), p) :
        c \in {x \in CandleLists :
                  /\ HasColumns(get_candles_df(x))
                  /\ \A i \in DOMAIN x : WellFormed(x[i])},
        p \in PatternLists}

\* The signals of the session's feed.
FeedSignals == IF feed = "well_formed" THEN SignalsWF ELSE Signals

\* bot.py:116: no breakout (can_trade is not asked), or the staking manager
\* says the instrument is not tradeable.
NoEntry ==
    /\ AtAsset
    /\ InBand(payout_now)
    /\ \E sig \in FeedSignals :
          \/ /\ sig.breakout = "none"
             /\ NextAsset(build_features(sig, payout_now), "unset",
                          FetchCalls(idx))
          \/ /\ sig.breakout # "none"
             /\ NextAsset(build_features(sig, payout_now), "unset",
                   FetchCalls(idx) \o <<Call("can_trade", idx, "", "False")>>)
    /\ UNCHANGED daily_wins

\* The calls up to the direction inference, when the instrument is tradeable.
EntryCalls(a) == FetchCalls(a) \o <<Call("can_trade", a, "", "True")>>

\* bot.py:116-124: breakout, tradeable, but the trend does not confirm it.
NoDirection ==
    /\ AtAsset
    /\ InBand(payout_now)
    /\ \E sig \in FeedSignals :
          /\ sig.breakout # "none"
          /\ infer_direction(sig.breakout, sig.trend) = "none"
          /\ NextAsset(build_features(sig, payout_now), "none", EntryCalls(idx))
    /\ UNCHANGED daily_wins

\* NotHighChance placing the order although the predictor said no.
NotHighChanceOrders ==
    /\ AtAsset
    /\ InBand(payout_now)
    /\ \E sig \in FeedSignals :
          LET dir == infer_direction(sig.breakout, sig.trend) IN
          /\ sig.breakout # "none"
          /\ dir # "none"
          /\ NextAsset(build_features(sig, payout_now), dir,
                EntryCalls(idx)
                   \o <<Call("predict_high_chance", idx, "", "False"),
                        Call("next_amount", idx, "high_chance=True", "ok"),
                        Call("buy", idx, dir, "ok"),
                        Call("check_win", idx, "", "loss"),
                        Call("register_trade", idx, "False", "ok"),
                        Call("log_trade", idx, "False", "ok")>>)
    /\ UNCHANGED daily_wins

\* bot.py:127: a direction, but the predictor does not see a high chance.
NotHighChance ==
    /\ AtAsset
    /\ InBand(payout_now)
    /\ \E sig \in FeedSignals :
          LET dir == infer_direction(sig.breakout, sig.trend) IN
          /\ sig.breakout # "none"
          /\ dir # "none"
          /\ NextAsset(build_features(sig, payout_now), dir,
                EntryCalls(idx)
                   \o <<Call("predict_high_chance", idx, "", "False")>>)
    /\ UNCHANGED daily_wins

\* What IQ.buy and IQ.check_win can do: bot.py:130-135.
Outcomes == {"win", "loss", "buy_raises", "check_win_raises"}

\* Result without the assignment of the except branch (bot.py:135).
ResultUnlessLoss(outcome) == outcome # "loss"

\* The value of result at bot.py:137.
Result(outcome) == outcome = "win"

\* The broker calls of one order: check_win is reached only if buy returns.
OrderCalls(a, dir, outcome) ==
    IF outcome = "buy_raises"
    THEN <<Call("buy", a, dir, "raise")>>
    ELSE <<Call("buy", a, dir, "ok"),
           Call("check_win", a, "",
                IF outcome = "check_win_raises" THEN "raise" ELSE outcome)>>

\* ReportCalls reporting wins only.
ReportOnlyWins(a, result) ==
    IF result
    THEN <<Call("register_trade", a, "True", "ok"),
           Call("log_trade", a, "True", "ok")>>
    ELSE <<>>

\* bot.py:137-138
ReportCalls(a, result) ==
    <<Call("register_trade", a, Bool(result), "ok"),
      Call("log_trade", a, Bool(result), "ok")>>

\* CountWin counting every trade.
CountEveryTrade(wins, result) == wins + 1

\* bot.py:140-141
CountWin(wins, result) == IF result THEN wins + 1 ELSE wins

\* bot.py:127-141: the trade.
Trade ==
    /\ AtAsset
    /\ InBand(payout_now)
    /\ \E sig \in FeedSignals, outcome \in Outcomes :
          LET dir == infer_direction(sig.breakout, sig.trend) IN
          /\ sig.breakout # "none"
          /\ dir # "none"
          /\ NextAsset(build_features(sig, payout_now), dir,
                EntryCalls(idx)
                   \o <<Call("predict_high_chance", idx, "", "True"),
                        Call("next_amount", idx, "high_chance=True", "ok")>>
                   \o OrderCalls(idx, dir, outcome)
                   \o ReportCalls(idx, Result(outcome)))
          /\ daily_wins' = CountWin(daily_wins, Result(outcome))

Next ==
    \/ ConnectOk
    \/ ConnectFail
    \/ NewsPause
    \/ DailyStop
    \/ StartScan
    \/ NewsSleep
    \/ StopSleep
    \/ CycleSleep
    \/ SkipPayout
    \/ FetchFail
    \/ EmptyFrameCrash
    \/ NoEntry
    \/ NoDirection
    \/ NotHighChance
    \/ Trade

Spec == Init /\ [][Next]_vars

(***************************************************************************)
(* The analyzer on its own: a frame is drawn, and the analyzer is applied  *)
(* to it.  main() does not run.                                            *)
(***************************************************************************)
MaxPrice == 3                   \* prices are 1..MaxPrice
MaxLen == 2                     \* frames have 1..MaxLen candles

TACandles ==
    [min : 1..MaxPrice, max : 1..MaxPrice, close : 1..MaxPrice, volume : {1}]
TAFrames ==
    {get_candles_df(c) : c \in UNION {[1..n -> TACandles] : n \in 1..MaxLen}}

InitTA ==
    /\ pc = "connect"
    /\ clock = 0
    /\ daily_wins = 0
    /\ last_trade_date = NoDate
    /\ all_profit = NoProfit
    /\ idx = 0
    /\ features = NoFeatures
    /\ direction = "unset"
    /\ calls = <<>>
    /\ feed = "any"
    /\ ta_df \in TAFrames
    /\ ta_in = NoInput
    /\ ta_out = NoAnswer

\* technical.py:32-41 applied to the frame.
ApplyBreakout ==
    /\ ta_out = NoAnswer
    /\ ta_df # NoFrame
    /\ ta_out' = detect_breakout(ta_df)
    /\ UNCHANGED <<pc, clock, daily_wins, last_trade_date, all_profit, idx,
                   features, direction, calls, feed, ta_df, ta_in>>

NextTA == ApplyBreakout

SpecTA == InitTA /\ [][NextTA]_vars

(***************************************************************************)
(* The feature computation on its own: an analyzer, a frame and the hits   *)
(* of the pattern library are drawn, and the computation of bot.py:95-122  *)
(* is applied to them.  main() does not run.                               *)
(***************************************************************************)
SigPrices == {1, 2}
SigVolumes == {0, 1, 2}
SigPeriods == {1, 2}

SigCandles ==
    [min : SigPrices, max : SigPrices, close : SigPrices, volume : SigVolumes]

\* Small frames of every shape.
SigFrames ==
    {get_candles_df(c) : c \in UNION {[1..n -> SigCandles] : n \in 1..MaxLen}}

\* Analyzers with every combination of small periods.
SigAnalyzers ==
    {TechnicalAnalyzer(f, s, p) :
        f \in SigPeriods, s \in SigPeriods, p \in SigPeriods}

\* A window of 60 candles whose close rises from 100 to 160: by 1 from
\* candle to candle, and by 2 after candle k.  Every candle reaches down
\* below its close and up above it.
RisingCandles(k, down, up) ==
    [i \in 1..60 |->
        LET close == 99 + i + (IF i > k THEN 1 ELSE 0)
        IN [min |-> close - down, max |-> close + up, close |-> close,
            volume |-> 1]]

RisingFrames ==
    {get_candles_df(RisingCandles(k, down, up)) :
        k \in 1..59, down \in 0..1, up \in 0..1}

\* The analyzer of the rising window: fast period 5, slow period 20.
RisingAnalyzer == TechnicalAnalyzer(5, 20, 20)

NoSignals ==
    [breakout |-> "unset", trend |-> "unset", pattern_name |-> "unset",
     volume_ratio |-> NaN, high_chance_basic |-> FALSE, direction |-> "unset"]

InitSig ==
    /\ pc = "connect"
    /\ clock = 0
    /\ daily_wins = 0
    /\ last_trade_date = NoDate
    /\ all_profit = NoProfit
    /\ idx = 0
    /\ features = NoFeatures
    /\ direction = "unset"
    /\ calls = <<>>
    /\ feed = "any"
    /\ \/ /\ ta_df \in SigFrames
          /\ ta_in \in [self : SigAnalyzers, patterns : PatternLists]
       \/ /\ ta_df \in RisingFrames
          /\ ta_in \in [self : {RisingAnalyzer}, patterns : PatternLists]
    /\ ta_out = NoSignals

\* bot.py:95-105 and the direction of bot.py:118-122, applied to the frame.
ApplySignals ==
    /\ ta_out = NoSignals
    /\ LET sig == analyze_with(ta_in.self, ta_df, ta_in.patterns)
       IN ta_out' = sig @@ [direction |-> infer_direction(sig.breakout, sig.trend)]
    /\ UNCHANGED <<pc, clock, daily_wins, last_trade_date, all_profit, idx,
                   features, direction, calls, feed, ta_df, ta_in>>

NextSig == ApplySignals

SpecSig == InitSig /\ [][NextSig]_vars

(***************************************************************************)
(* Properties                                                              *)
(***************************************************************************)
HasCall(cs, op) == \E i \in DOMAIN cs : cs[i].op = op
HasRet(cs, op, ret) == \E i \in DOMAIN cs : cs[i].op = op /\ cs[i].ret = ret
HasArg(cs, op, arg) == \E i \in DOMAIN cs : cs[i].op = op /\ cs[i].arg = arg

\* The calls that belong to the instrument scan.
ScanOps ==
    {"get_all_profit", "get_candles", "cdl_pattern", "can_trade",
     "predict_high_chance", "next_amount", "buy", "check_win",
     "register_trade", "log_trade"}
ScanFree(cs) == \A i \in DOMAIN cs : cs[i].op \notin ScanOps

\* The news gate answered b in the step that starts at the head of a cycle.
NewsAnswer(b) ==
    pc = "top" /\ HasRet(calls', "check_high_impact_news", Bool(b))

\* C1: in a cycle where the news check returns true the controller pauses,
\* sleeps and restarts the cycle; it fetches no payouts and no candles, scans
\* no instrument, executes no trade, and daily_wins and last_trade_date keep
\* the values they had at the start of the cycle.
C1_NewsPauseKeepsState ==
    [][/\ NewsAnswer(TRUE) =>
             /\ pc' = "news_pause"
             /\ ScanFree(calls')
             /\ UNCHANGED <<daily_wins, last_trade_date>>
       /\ pc = "news_pause" =>
             /\ pc' = "top"
             /\ calls' = <<Call("sleep", 0, "60", "ok")>>
             /\ UNCHANGED <<daily_wins, last_trade_date>>]_vars

\* A news pause on a later date than the recorded one, with wins on record:
\* the rollover would have changed both.
C1_Witness ==
    /\ pc = "news_pause"
    /\ daily_wins > 0
    /\ last_trade_date # NoDate
    /\ date(last_trade_date) < date(clock)

\* C2: in a cycle that passes the news check, daily_wins is set to 0 iff
\* last_trade_date is unset or its date is strictly before the current date
\* (otherwise it is left alone), and last_trade_date becomes the current
\* instant in all cases; the clock never being behind last_trade_date, a
\* cycle on the recorded date never resets daily_wins.
C2_RolloverOncePerDate ==
    /\ [](last_trade_date # NoDate => last_trade_date <= clock)
    /\ [][NewsAnswer(FALSE) =>
             /\ last_trade_date' = clock
             /\ (last_trade_date = NoDate
                   \/ last_trade_date \div TicksPerDay < clock \div TicksPerDay)
                  => daily_wins' = 0
             /\ (last_trade_date # NoDate
                   /\ last_trade_date \div TicksPerDay = clock \div TicksPerDay)
                  => daily_wins' = daily_wins]_vars

\* A cycle on the recorded date, at a later instant, that kept the wins.
C2_Witness ==
    /\ pc = "scan"
    /\ idx = 1
    /\ daily_wins > 0
    /\ last_trade_date = clock
    /\ clock % TicksPerDay > 0

\* C3: in a cycle that passes the news check with, after the rollover,
\* daily_wins >= the cap, the controller enters DAILY_STOP_PAUSE: no payouts,
\* no candles, no instrument, no trade; it restarts the cycle after the long
\* sleep.
C3_DailyStopPause ==
    [][/\ (NewsAnswer(FALSE) /\ daily_wins' >= StopWinVictories) =>
             /\ pc' = "daily_stop_pause"
             /\ ScanFree(calls')
       /\ pc = "daily_stop_pause" =>
             /\ pc' = "top"
             /\ calls' = <<Call("sleep", 0, "3600", "ok")>>
             /\ UNCHANGED <<daily_wins, last_trade_date>>]_vars

\* Paused with exactly the cap reached.
C3_Witness ==
    /\ pc = "daily_stop_pause"
    /\ daily_wins = StopWinVictories
    /\ ScanFree(calls)

\* The payout main() reads for the instrument the scan is at.
PayoutAt(a) == IF a \in DOMAIN all_profit THEN all_profit[a] ELSE 0

\* C4: an instrument whose payout is below min_payout or above max_payout is
\* skipped before any candle fetch: no call at all is made for it.
C4_PayoutSkip ==
    [][(pc = "scan" /\ idx \in Assets
          /\ (PayoutAt(idx) < MinPayout \/ PayoutAt(idx) > MaxPayout)) =>
             /\ calls' = <<>>
             /\ pc' = "scan"
             /\ idx' = idx + 1
             /\ UNCHANGED daily_wins]_vars

\* The first instrument was skipped for a payout above the band.
C4_Witness ==
    /\ pc = "scan"
    /\ idx = 2
    /\ PayoutAt(1) > MaxPayout
    /\ calls = <<>>

\* C5: a failed candle fetch skips that instrument only: daily_wins and
\* last_trade_date are unchanged, nothing else is called for it, and the scan
\* goes on with the instrument that follows it.
C5_FetchFailureIsolated ==
    [][(pc = "scan" /\ HasRet(calls', "get_candles", "raise")) =>
             /\ calls' = <<Call("get_candles", idx, "", "raise")>>
             /\ UNCHANGED <<daily_wins, last_trade_date>>
             /\ pc' = "scan"
             /\ idx' = idx + 1]_vars

\* The fetch failed for the first instrument and the second one is next.
C5_Witness ==
    /\ pc = "scan"
    /\ idx = 2
    /\ calls = <<Call("get_candles", 1, "", "raise")>>

\* C6: when buy or check_win raises, the cycle is not aborted: the outcome is
\* reported as a loss to the staking manager and to the predictor,
\* daily_wins is not incremented, and the scan goes on with the instrument
\* that follows.
C6_ExecutionFailureIsLoss ==
    [][(pc = "scan"
          /\ (HasRet(calls', "buy", "raise")
                \/ HasRet(calls', "check_win", "raise"))) =>
             /\ HasArg(calls', "register_trade", "False")
             /\ HasArg(calls', "log_trade", "False")
             /\ ~HasArg(calls', "register_trade", "True")
             /\ ~HasArg(calls', "log_trade", "True")
             /\ UNCHANGED daily_wins
             /\ pc' = "scan"
             /\ idx' = idx + 1]_vars

\* The order of the first instrument failed and the second one is next.
C6_Witness ==
    /\ pc = "scan"
    /\ idx = 2
    /\ HasRet(calls, "check_win", "raise")
    /\ HasArg(calls, "register_trade", "False")

\* C7: connection failure is the only failure that ends the session: main()
\* is left only by the return after a failed connect, before any cycle.
C7_OnlyConnectFailureEnds ==
    pc \in {"exited", "crashed"} =>
        /\ pc = "exited"
        /\ calls = <<Call("connect", 0, "", "raise")>>

\* The part of C7 that the code keeps: an exception raised by get_candles,
\* buy or check_win never takes the controller out of the loop.
C7_BrokerErrorsStayInLoop ==
    (HasRet(calls, "get_candles", "raise") \/ HasRet(calls, "buy", "raise")
        \/ HasRet(calls, "check_win", "raise")) => pc = "scan"

\* C8: the direction is call iff breakout_up with trend up, put iff
\* breakout_down with trend down, none otherwise; a breakout that the trend
\* does not confirm leads to no trade for the instrument.
C8_DirectionNeedsTrend ==
    /\ \A b \in {"breakout_up", "breakout_down", "none"}, t \in {"up", "down", "flat"} :
          /\ infer_direction(b, t) = "call" <=> (b = "breakout_up" /\ t = "up")
          /\ infer_direction(b, t) = "put" <=> (b = "breakout_down" /\ t = "down")
          /\ infer_direction(b, t) \in {"call", "put", "none"}
    /\ direction # "unset" =>
          /\ direction = "call" <=>
                (features.breakout = "breakout_up" /\ features.trend = "up")
          /\ direction = "put" <=>
                (features.breakout = "breakout_down" /\ features.trend = "down")
          /\ direction \in {"call", "put", "none"}
    /\ HasCall(calls, "buy") =>
          \/ /\ features.breakout = "breakout_up"
             /\ features.trend = "up"
             /\ HasArg(calls, "buy", "call")
          \/ /\ features.breakout = "breakout_down"
             /\ features.trend = "down"
             /\ HasArg(calls, "buy", "put")

\* A breakout upwards against a falling trend: no direction, no order.
C8_Witness ==
    /\ features.breakout = "breakout_up"
    /\ features.trend = "down"
    /\ direction = "none"
    /\ HasRet(calls, "can_trade", "True")
    /\ ~HasCall(calls, "buy")

\* C9: on a non-empty frame the breakout is none whenever the last close
\* lies strictly between min(low) and max(high) of the whole frame, the last
\* candle included; breakout_up only if the last close is strictly above
\* every high, breakout_down only if it is strictly below every low.
C9_BreakoutWholeWindow ==
    ta_out # NoAnswer =>
        LET n == Len(ta_df)
            last_close == ta_df[n].close
        IN /\ ((\E i \in 1..n : ta_df[i].low < last_close)
                 /\ (\E j \in 1..n : last_close < ta_df[j].high))
                => ta_out = "none"
           /\ ta_out = "breakout_up" =>
                \A i \in 1..n : last_close > ta_df[i].high
           /\ ta_out = "breakout_down" =>
                \A i \in 1..n : last_close < ta_df[i].low
           /\ ta_out \in {"breakout_up", "breakout_down", "none"}

\* The last close is above every earlier high but not above its own candle's
\* high: no breakout.
C9_Witness ==
    /\ ta_out = "none"
    /\ Len(ta_df) >= 2
    /\ \A i \in 1..(Len(ta_df) - 1) : ta_df[Len(ta_df)].close > ta_df[i].high
    /\ ta_df[Len(ta_df)].close < ta_df[Len(ta_df)].high
    /\ \E i \in 1..Len(ta_df) : ta_df[i].low < ta_df[Len(ta_df)].close

\* C10: daily_wins is never negative; during the scan its only change is an
\* increment by exactly 1 in the step of a trade whose outcome is a win; a
\* loss, a failed execution or a skipped instrument leaves it unchanged;
\* outside the scan it changes only by the reset to 0.
C10_WinsMonotoneWithinDay ==
    /\ [](daily_wins >= 0)
    /\ [][/\ (pc = "scan" /\ HasRet(calls', "check_win", "win"))
               => daily_wins' = daily_wins + 1
          /\ (pc = "scan" /\ ~HasRet(calls', "check_win", "win"))
               => daily_wins' = daily_wins
          /\ pc # "scan" => daily_wins' \in {daily_wins, 0}]_vars

\* The second instrument lost after the first one won: one win on record.
C10_Witness ==
    /\ pc = "scan"
    /\ idx = 3
    /\ daily_wins = 1
    /\ HasRet(calls, "check_win", "loss")

\* C11: the checks at the head of a cycle run in the order news, rollover,
\* cap, scan.  A cycle paused by the news check does no rollover and no cap
\* check, whatever daily_wins is; in a cycle that passes the news check the
\* cap check sees the wins left by the rollover.  So when the cap was
\* reached and the date has advanced since, the first cycle that passes the
\* news check resets daily_wins to 0 and goes on to the scan.
C11_HeadOrder ==
    [][/\ NewsAnswer(TRUE) =>
             /\ pc' = "news_pause"
             /\ daily_wins' = daily_wins
             /\ last_trade_date' = last_trade_date
       /\ NewsAnswer(FALSE) =>
             /\ daily_wins' =
                   IF \/ last_trade_date = NoDate
                      \/ date(last_trade_date) < date(clock)
                   THEN 0 ELSE daily_wins
             /\ pc' = IF daily_wins' >= StopWinVictories
                      THEN "daily_stop_pause" ELSE "scan"
       /\ (/\ NewsAnswer(FALSE)
           /\ daily_wins >= StopWinVictories
           /\ last_trade_date # NoDate
           /\ date(last_trade_date) < date(clock)) =>
             /\ daily_wins' = 0
             /\ pc' = "scan"
             /\ idx' = 1
             /\ HasCall(calls', "get_all_profit")]_vars

\* Back at the head of the loop from the daily stop pause, the cap still
\* reached and the date advanced.
C11_Witness ==
    /\ pc = "top"
    /\ calls = <<Call("sleep", 0, "3600", "ok")>>
    /\ daily_wins >= StopWinVictories
    /\ last_trade_date # NoDate
    /\ date(last_trade_date) < date(clock)

\* The frame is one of the rising windows, analysed with periods 5 and 20.
RisingCase == ta_df \in RisingFrames /\ ta_in.self = RisingAnalyzer

\* C12: for a window of 60 candles whose close rises monotonically from 100
\* to 160, with fast period 5 and slow period 20, the trend is up, the
\* breakout is breakout_up and the inferred direction is call.
C12_RisingWindowBreaksOut ==
    (RisingCase /\ ta_out # NoSignals) =>
        /\ ta_out.trend = "up"
        /\ ta_out.breakout = "breakout_up"
        /\ ta_out.direction = "call"

\* What the code answers for such a window: the trend is up, but the last
\* candle's own high is part of the resistance, so there is no breakout and
\* no direction.
C12_RisingWindowNoBreakout ==
    (RisingCase /\ ta_out # NoSignals) =>
        /\ ta_out.trend = "up"
        /\ ta_out.breakout = "none"
        /\ ta_out.direction = "none"

\* The sum of the last k closes of the frame given to the analyzer.
LastCloses(k) ==
    LET n == Len(ta_df)
        sum[j \in 0..k] ==
            IF j = 0 THEN 0 ELSE sum[j - 1] + ta_df[n - j + 1].close
    IN sum[k]

\* C13: the trend compares the most recent fast moving average with the most
\* recent slow one: up if the fast one is greater, down if it is smaller,
\* flat if they are equal.  For every window of constant close whose length
\* is at least max(ma_fast, ma_slow) the trend is flat.
C13_TrendComparesAverages ==
    ta_out # NoSignals =>
        LET n == Len(ta_df)
            f == ta_in.self.ma_fast
            s == ta_in.self.ma_slow
        IN /\ (n >= f /\ n >= s) =>
                 \* fast = LastCloses(f) / f, slow = LastCloses(s) / s
                 /\ ta_out.trend = "up" <=> LastCloses(f) * s > LastCloses(s) * f
                 /\ ta_out.trend = "down" <=> LastCloses(f) * s < LastCloses(s) * f
                 /\ ta_out.trend = "flat" <=> LastCloses(f) * s = LastCloses(s) * f
           /\ (/\ n >= f /\ n >= s
               /\ \A i \in 1..n : ta_df[i].close = ta_df[1].close) =>
                 ta_out.trend = "flat"
           /\ ta_out.trend \in {"up", "down", "flat"}

\* A window of constant close, long enough for two averages of different
\* periods: flat.
C13_Witness ==
    /\ ta_out # NoSignals
    /\ ta_out.trend = "flat"
    /\ ta_in.self.ma_fast < ta_in.self.ma_slow
    /\ Len(ta_df) >= ta_in.self.ma_slow
    /\ \A i \in 1..Len(ta_df) : ta_df[i].close = 2

\* C14: for every fetched window too short for the slow average, of any
\* length from 0 to ma_slow - 1, the aggregation steps do not raise: after a
\* successful fetch the controller is still in the scan, at the next
\* instrument.
C14_ShortWindowNeverRaises ==
    HasRet(calls, "get_candles", "ok") => pc = "scan"

\* The part of C14 that the code keeps, for the lengths 1 to ma_slow - 1:
\* the slow average is unavailable, the trend is flat and no direction is
\* inferred.
C14_ShortWindowIsInert ==
    (ta_out # NoSignals /\ Len(ta_df) < ta_in.self.ma_slow) =>
        /\ rolling_mean(ta_df, "close", ta_in.self.ma_slow, Len(ta_df)).nan
        /\ ta_out.trend = "flat"
        /\ ta_out.direction = "none"
        /\ ~ta_out.high_chance_basic

\* The sum of the last k volumes of the frame given to the analyzer.
LastVolumes(k) ==
    LET n == Len(ta_df)
        sum[j \in 0..k] ==
            IF j = 0 THEN 0 ELSE sum[j - 1] + ta_df[n - j + 1].volume
    IN sum[k]

\* C15: the volume ratio is a number and at least 0; it is exactly 0 when
\* the mean of the last volume_period volumes (the current candle included)
\* is 0 or unavailable, the window being shorter than volume_period;
\* otherwise it is the last volume divided by that mean.  No undefined value
\* reaches the composite eligibility signal.
C15_VolumeRatioDefined ==
    ta_out # NoSignals =>
        LET n == Len(ta_df)
            p == ta_in.self.volume_period
            ratio == ta_out.volume_ratio
        IN /\ ~ratio.nan
           /\ ratio.den > 0
           /\ ratio.num >= 0
           /\ n < p => ratio.num = 0
           /\ (n >= p /\ LastVolumes(p) = 0) => ratio.num = 0
           \* ratio = last volume / (LastVolumes(p) / p)
           /\ (n >= p /\ LastVolumes(p) > 0) =>
                 ratio.num * LastVolumes(p) = ratio.den * ta_df[n].volume * p
           /\ ta_out.high_chance_basic \in BOOLEAN

\* A window long enough for the mean, with no volume at all: the mean is 0
\* and so is the ratio.
C15_Witness ==
    /\ ta_out # NoSignals
    /\ ta_in.self.volume_period = 2
    /\ Len(ta_df) = 2
    /\ \A i \in 1..2 : ta_df[i].volume = 0
    /\ ta_out.volume_ratio = Rat(0, 1)

\* C16: the composite eligibility signal is a function of the four features
\* of the instrument: it is true iff there is a breakout, a pattern was
\* found, the volume ratio is above 1.0 and the trend is not flat, and false
\* otherwise.
C16_EligibilityIsConjunction ==
    ta_out # NoSignals =>
        /\ ta_out.high_chance_basic \in BOOLEAN
        /\ ta_out.high_chance_basic <=>
              /\ ta_out.breakout \in {"breakout_up", "breakout_down"}
              /\ Len(ta_in.patterns) > 0
              /\ ta_out.volume_ratio.num > ta_out.volume_ratio.den
              /\ ta_out.trend \in {"up", "down"}

\* All four features are there: the signal is true.
C16_Witness ==
    /\ ta_out # NoSignals
    /\ ta_out.high_chance_basic
    /\ ta_out.breakout = "breakout_up"
    /\ ta_out.pattern_name = "CDL_ENGULFING"
    /\ ta_out.trend = "up"

\* The operations of a sequence of calls, in order.
Ops(cs) == [i \in DOMAIN cs |-> cs[i].op]

\* In cs a call of op answered ret comes before the first call of later.
AnsweredBefore(cs, op, ret, later) ==
    \E i \in DOMAIN cs :
        /\ cs[i].op = op
        /\ cs[i].ret = ret
        /\ \A j \in 1..i : cs[j].op # later

\* C17: the broker's buy is called for an instrument only if every gate was
\* passed in that cycle: the scan is entered only by a cycle whose news
\* check answered false and whose cap check found daily_wins below the cap;
\* within the scan the order is placed only for an instrument whose payout
\* is inside the band, whose candles were fetched, for which a direction
\* call or put was inferred, which the staking manager reported tradeable
\* and for which the predictor answered high chance.
C17_TradeOnlyThroughGates ==
    /\ [][(pc' = "scan" /\ pc # "scan") =>
             /\ NewsAnswer(FALSE)
             /\ daily_wins' < StopWinVictories]_vars
    /\ [][HasCall(calls', "buy") =>
             /\ pc = "scan"
             /\ idx \in Assets
             /\ MinPayout <= PayoutAt(idx)
             /\ PayoutAt(idx) <= MaxPayout
             /\ \A i \in DOMAIN calls' : calls'[i].asset = idx
             /\ AnsweredBefore(calls', "get_candles", "ok", "buy")
             /\ AnsweredBefore(calls', "can_trade", "True", "buy")
             /\ AnsweredBefore(calls', "predict_high_chance", "True", "buy")
             /\ direction' \in {"call", "put"}
             /\ HasArg(calls', "buy", direction')]_vars
    /\ [](HasCall(calls, "buy") =>
             /\ features.breakout \in {"breakout_up", "breakout_down"}
             /\ ~HasRet(calls, "get_candles", "raise")
             /\ ~HasRet(calls, "can_trade", "False")
             /\ ~HasRet(calls, "predict_high_chance", "False"))

\* An order was placed for the second instrument, at the upper edge of the
\* payout band, after every gate had answered yes.
C17_Witness ==
    /\ pc = "scan"
    /\ idx = 3
    /\ PayoutAt(2) = MaxPayout
    /\ HasArg(calls, "buy", "put")
    /\ direction = "put"
    /\ HasRet(calls, "can_trade", "True")
    /\ HasRet(calls, "predict_high_chance", "True")

\* The calls of cs from the first call of op on.
From(cs, op) ==
    LET k == CHOOSE i \in DOMAIN cs :
                 cs[i].op = op /\ \A j \in 1..(i - 1) : cs[j].op # op
    IN SubSeq(cs, k, Len(cs))

\* C18: in a trade attempt the collaborators are called in the order:
\* predictor's high-chance check, stake request, execute, wait for the
\* outcome, outcome report to the staking manager, outcome log to the
\* predictor; only then is daily_wins updated.  Each stake request is
\* followed by exactly one outcome report, for the same instrument and
\* before the next instrument is evaluated, also when execute or the wait
\* for the outcome fails.
C18_TradeCallOrder ==
    /\ [](HasCall(calls, "next_amount") =>
             LET attempt == From(calls, "predict_high_chance")
                 ops == Ops(attempt)
                 placed == attempt[3].ret = "ok"
                 won == placed /\ attempt[4].ret = "win"
                 report == attempt[Len(attempt) - 1]
             IN /\ ops = IF placed
                         THEN <<"predict_high_chance", "next_amount", "buy",
                                "check_win", "register_trade", "log_trade">>
                         ELSE <<"predict_high_chance", "next_amount", "buy",
                                "register_trade", "log_trade">>
                /\ attempt[1].ret = "True"
                /\ report.op = "register_trade"
                /\ report.asset = attempt[2].asset
                /\ report.arg = Bool(won)
                /\ attempt[Len(attempt)].arg = Bool(won)
                /\ \A i \in DOMAIN calls : calls[i].asset = report.asset)
    /\ [][HasCall(calls', "next_amount") =>
             /\ idx \in Assets
             /\ idx' = idx + 1
             /\ \A i \in DOMAIN calls' : calls'[i].asset = idx]_vars
    /\ [][daily_wins' = daily_wins + 1 =>
             calls'[Len(calls')] = Call("log_trade", idx, "True", "ok")]_vars

\* A stake was requested and the execution raised: the loss is reported
\* once, and nothing waits for an outcome.
C18_Witness ==
    /\ HasCall(calls, "next_amount")
    /\ HasRet(calls, "buy", "raise")
    /\ ~HasCall(calls, "check_win")
    /\ calls[Len(calls) - 1].op = "register_trade"
    /\ calls[Len(calls) - 1].arg = "False"

\* C19: if every fetched candle is well-formed (low <= close <= high), the
\* breakout of every instrument is none in every reachable state, so the
\* staking manager's eligibility check, the predictor and the broker's buy
\* are never called, no trade is executed, daily_wins is 0 in every cycle
\* and the daily stop pause is never reached (the cap being at least 1).
C19_WellFormedNeverTrades ==
    feed = "well_formed" =>
        /\ \A sig \in SignalsWF : sig.breakout = "none"
        /\ features.breakout \in {"unset", "none"}
        /\ direction = "unset"
        /\ \A i \in DOMAIN calls :
              calls[i].op \notin {"can_trade", "predict_high_chance",
                                  "next_amount", "buy", "check_win",
                                  "register_trade", "log_trade"}
        /\ daily_wins = 0
        /\ pc # "daily_stop_pause"
        /\ StopWinVictories >= 1

\* In a session of well-formed candles an instrument with a rising window
\* was evaluated: no breakout, and the scan went on.
C19_Witness ==
    /\ feed = "well_formed"
    /\ pc = "scan"
    /\ idx = 2
    /\ calls = FetchCalls(1)
    /\ features.trend = "up"
    /\ features.breakout = "none"

\* C20: the daily win cap is checked only at the head of a cycle, never
\* inside the scan, and each instrument is evaluated at most once per cycle:
\* the scan is entered below the cap and counts at most one win for each of
\* the N instruments.  So daily_wins <= cap + N - 1 in every reachable
\* state, and daily_wins can exceed the cap, by at most N - 1, when several
\* instruments win in the same cycle.
C20_WinsBoundedByCapPlusScan ==
    /\ [](daily_wins <= StopWinVictories + NumAssets - 1)
    /\ [](pc = "scan" => daily_wins <= StopWinVictories - 1 + (idx - 1))
    /\ [][pc' = "daily_stop_pause" => pc = "top"]_vars
    /\ [][(pc = "scan" /\ pc' = "scan") =>
             /\ idx \in Assets
             /\ idx' = idx + 1]_vars
    /\ [][(pc = "scan" /\ daily_wins' # daily_wins) =>
             /\ daily_wins' = daily_wins + 1
             /\ pc' = "scan"]_vars

\* The scan was entered one win below the cap and every instrument won: at
\* the end of the scan daily_wins is above the cap by N - 1.
C20_Witness ==
    /\ pc = "scan"
    /\ idx = NumAssets + 1
    /\ daily_wins = StopWinVictories + NumAssets - 1
    /\ daily_wins > StopWinVictories

====
